---- MODULE Spec2Model ----
(***************************************************************************)
(* MubarakAI: the central dispatcher MubarakAI.process_request, the        *)
(* session scope get_db_session, the periodic block creation task and the  *)
(* in-memory ledger they share (src/main_app.py).                          *)
(*                                                                         *)
(* Requests are asyncio tasks: a request's steps are the code between two  *)
(* awaits, and steps of different requests and of the periodic task        *)
(* interleave.  core.blockchain.BlockchainLedger, models.ModuleType, the   *)
(* module handlers and the recommendation engine are imported by           *)
(* main_app.py but their code is not part of src/; they are modelled from  *)
(* the specification (sections 3, 4.2, 4.3).                               *)
(*                                                                         *)
(* Other parts of the repository have specifications of their own over     *)
(* the same variables: the redis_cache decorator (src/caching.py,          *)
(* CacheSpec), the analyze-text endpoint (src/ai_analysis.py,              *)
(* AnalysisSpec), the login, block and unblock endpoints (src/users.py,    *)
(* src/crud.py, UserSpec), the profile update and the administrator script *)
(* (src/users.py, src/create_admin.py, ProfileSpec), the wallet endpoints  *)
(* (src/users.py, LinkSpec), the generic request endpoint (src/actions.py, *)
(* ActionsSpec), register_user (src/main_app.py, RegisterSpec) and the     *)
(* WebSocket connection manager (src/websockets.py, src/waqf.py, WsSpec).  *)
(* FairSpec is the dispatcher under the event loop's scheduling.  The User *)
(* class of src/models.py declares neither role, banned_until nor          *)
(* wallet_address; the columns are taken from the specification's data     *)
(* model and from their uses in src/users.py.  Names that a file uses      *)
(* without importing them are taken to be what their use shows.            *)
(***************************************************************************)
EXTENDS Integers, Sequences, FiniteSets, TLC

\* ------------------------------------------------------------------ bounds
MaxReq == 2            \* request tasks in flight
MaxTxPerCall == 1      \* transactions one handler call may put in the pool
MaxInitPool == 4       \* transactions earlier requests may have left pending
MaxSeals == 2          \* cap on the number of direct create_block calls
MaxLedgerTx == 4       \* cap on the transactions added by direct ledger calls
MaxProof == 2          \* proofs are drawn from 1..MaxProof
MaxData == 2           \* versions the data behind a cached method goes through
ExpirationTicks == 2    \* the lifetime of a cache entry, in ticks of the clock
MaxScore == 2          \* analyze_topics gives a score in 1..MaxScore
MaxTime == 3           \* the clock of the user endpoints runs from 1 to MaxTime
MaxDuration == 2       \* a block lasts 1..MaxDuration ticks
MaxNonce == 2          \* nonces are handed out MaxNonce times
MaxBroadcasts == 1     \* cap on the number of broadcasts

Reqs == 1..MaxReq
Proofs == 1..MaxProof
Amounts == {5, 7}
Users == {"u1"}

\* ------------------------------------------------------- program constants
BLOCK_CREATION_THRESHOLD == 5

\* self.node_identifier, and another caller of the ledger
NodeId == "node"
Miners == {NodeId, "peer"}

\* The members of ModuleType that main_app.py names; all are registered.
ModuleType == {"FARD_AI", "BAITUL_HIKMA", "AR_RIHLA", "UMMAH_WAQF",
               "SALAM_HEALTH", "NUTRITION_HALAL", "CAREER_UMMA"}

\* self.modules: the registry built in __init__
modules == ModuleType

\* Every registered module has a process_request method (section 4.3).
HasProcessRequest(m) == m \in modules

\* A mutant of HasSelfLogger: the attribute exists.
HasSelfLogger_is_set == TRUE

\* MubarakAI.__init__ sets no attribute named logger (the module-level name
\* is `logger`), so evaluating self.logger raises AttributeError.
HasSelfLogger == FALSE

\* Module tags a request envelope may carry: absent (None), empty, a
\* registered tag and one that is no member of ModuleType.
RequestTags == {"None", "", "UMMAH_WAQF", "unknown_tag"}

VARIABLES
    pc,                    \* pc[r]: position of request task r
    request,               \* request[r]: the envelope and the user identifier
    module_type,           \* module_type[r]: the resolved module
    sid,                   \* sid[r]: index in sessions of r's db_session, 0 = none
    sessions,              \* every session self.Session() has created
    db,                    \* committed writes (the owners' request ids)
    result,                \* result[r]: success flag of the handler's result
    response,              \* response[r]: what process_request gave its caller
    fault,                 \* fault[r]: where a fault was raised, "none" if nowhere
    reached,               \* reached[r]: line 249 found the pool at the threshold
    sealedBy,              \* sealedBy[r]: blocks created by request r
    pending_transactions,  \* main_ledger.pending_transactions
    chain,                 \* main_ledger.chain
    seals,                 \* number of create_block calls so far
    next_tx,               \* identity of the next transaction object
    periodic,              \* state of _periodic_block_creation_task
    redis,                 \* the cache store: redis[key] is a value and its time to live
    data,                  \* version of the data a cached method reads
    cache_pc,              \* position of the caller inside redis_cache's wrapper
    cache_call,            \* the wrapped function and argument of the call in progress
    cache_result,          \* wrapper's local `result`
    returned,              \* what the last call returned, self.redis configured
    returned_plain,        \* what the same call returned on an object without redis
    ai_pc,                 \* ai_pc[r]: position of analyze-text request r
    ai_request,            \* ai_request[r]: current_user.id and request_data.text
    ai_live,               \* ai_live[r]: redis held a live entry when r asked for it
    ai_called,             \* ai_called[r]: calls of analyzer.analyze_topics by r
    ai_response,           \* ai_response[r]: the "results" of r's response
    users,                 \* the users table, by id
    now,                   \* datetime.now(timezone.utc)
    last,                  \* the last request to a user endpoint and its response
    link_wallet_nonce,     \* redis: link_wallet_nonce:{user id} -> nonce, 0 when absent
    next_nonce,            \* the value secrets.token_hex gives next
    link_pc,               \* where each link_wallet request stands
    link_req,              \* its caller and request_data
    link_status,           \* its HTTP status, 0 while it is running
    verified,              \* the nonce its signature was verified against, 0 if none
    http_pc,               \* where each call of handle_user_request stands
    http_request,          \* the module tag of its request
    http_result,           \* what process_request returned to it
    http_status,           \* its HTTP status, 0 while it is running
    reg_pc,                \* where each register_user call stands
    reg_data,              \* its argument user_data
    reg_fault,             \* where it faulted, "none" if nowhere
    reg_result,            \* the first component of what it returned
    mubarak_users,         \* the user_ids of the committed MubarakUserDB rows
    self_sessions,         \* the keys of MubarakAI.sessions
    active_connections,    \* ConnectionManager.active_connections
    ws_pc,                 \* where the websocket_endpoint of each socket stands
    ws_waqf,               \* the project it subscribed to, 0 if none
    client,                \* the client's end of each socket
    bc_pc,                 \* where broadcast_to_project stands
    bc_waqf,               \* the project it broadcasts to
    bc_i,                  \* the position of its for loop in the list
    broadcasts,            \* the number of broadcasts started
    received               \* the number of messages each client received

mainVars == <<pc, request, module_type, sid, sessions, db, result, response,
              fault, reached, sealedBy, pending_transactions, chain, seals,
              next_tx, periodic>>

cacheVars == <<data, cache_pc, cache_call, cache_result, returned, returned_plain>>

aiVars == <<ai_pc, ai_request, ai_live, ai_called, ai_response>>

userVars == <<users, now, last>>

\* the state of the parts that have specifications of their own further down
linkVars == <<link_wallet_nonce, next_nonce, link_pc, link_req, link_status,
              verified>>

httpVars == <<http_pc, http_request, http_result, http_status>>

regVars == <<reg_pc, reg_data, reg_fault, reg_result, mubarak_users,
             self_sessions>>

wsVars == <<active_connections, ws_pc, ws_waqf, client, bc_pc, bc_waqf, bc_i,
            broadcasts, received>>

moreVars == <<linkVars, httpVars, regVars, wsVars>>

\* what the dispatcher and the ledger never touch
otherVars == <<redis, cacheVars, aiVars, userVars, moreVars>>

vars == <<mainVars, otherVars>>

reqVars == <<pc, request, module_type, sid, sessions, db, result, response,
             fault, reached, sealedBy, periodic>>

\* ------------------------------------------------------------------ ledger
RECURSIVE SumAmounts(_)
SumAmounts(txs) ==
    IF txs = <<>> THEN 0 ELSE Head(txs).amount + SumAmounts(Tail(txs))

\* Digest of a block's fields.
Hash(b) ==
    (31 * b.index + 17 * b.proof + 13 * b.previous_hash
       + 7 * SumAmounts(b.transactions) + Len(b.transactions)) % 1009

\* The chain starts with a genesis block.
Genesis ==
    [index |-> 1, transactions |-> <<>>, proof |-> 100, previous_hash |-> 1,
     miner |-> "genesis"]

last_block == chain[Len(chain)]

\* A transaction: sender, recipient, positive amount; id is the identity of
\* the object.
Transaction(sender, recipient, amount, id) ==
    [sender |-> sender, recipient |-> recipient, amount |-> amount, id |-> id]

\* add n transactions of one amount to the pending pool
RECURSIVE NewTxs(_, _, _, _, _)
NewTxs(sender, recipient, amount, first, n) ==
    IF n = 0 THEN <<>>
    ELSE <<Transaction(sender, recipient, amount, first)>>
           \o NewTxs(sender, recipient, amount, first + 1, n - 1)

add_transactions(sender, recipient, amount, n) ==
    /\ pending_transactions' =
           pending_transactions \o NewTxs(sender, recipient, amount, next_tx, n)
    /\ next_tx' = next_tx + n

\* Mutants of create_block.
\* the pool is not cleared
create_block_keeps_pool(proof, miner) ==
    /\ chain' = Append(chain,
                       [index |-> Len(chain) + 1,
                        transactions |-> pending_transactions,
                        proof |-> proof,
                        previous_hash |-> Hash(last_block),
                        miner |-> miner])
    /\ UNCHANGED pending_transactions
    /\ seals' = seals + 1

\* the previous hash is always the genesis block's
create_block_hash_of_first(proof, miner) ==
    /\ chain' = Append(chain,
                       [index |-> Len(chain) + 1,
                        transactions |-> pending_transactions,
                        proof |-> proof,
                        previous_hash |-> Hash(chain[1]),
                        miner |-> miner])
    /\ pending_transactions' = <<>>
    /\ seals' = seals + 1

\* the new block takes the place of the last one
create_block_overwrites(proof, miner) ==
    /\ chain' = [chain EXCEPT ![Len(chain)] =
                    [index |-> Len(chain),
                     transactions |-> pending_transactions,
                     proof |-> proof,
                     previous_hash |-> Hash(last_block),
                     miner |-> miner]]
    /\ pending_transactions' = <<>>
    /\ seals' = seals + 1

\* the last pending transaction is left out of the block and cleared
create_block_drops_last(proof, miner) ==
    /\ chain' = Append(chain,
                       [index |-> Len(chain) + 1,
                        transactions |-> SubSeq(pending_transactions, 1,
                                                Len(pending_transactions) - 1),
                        proof |-> proof,
                        previous_hash |-> Hash(last_block),
                        miner |-> miner])
    /\ pending_transactions' = <<>>
    /\ seals' = seals + 1

\* create_block(proof, miner): seal every pending transaction in a new block
\* that follows the last one, and clear the pool.
create_block(proof, miner) ==
    /\ chain' = Append(chain,
                       [index |-> Len(chain) + 1,
                        transactions |-> pending_transactions,
                        proof |-> proof,
                        previous_hash |-> Hash(last_block),
                        miner |-> miner])
    /\ pending_transactions' = <<>>
    /\ seals' = seals + 1

\* ---------------------------------------------------------------- sessions
\* self.Session(): a new session object
Session == [state |-> "open", commits |-> 0, rollbacks |-> 0, closes |-> 0,
            dirty |-> {}]

session_add(s, w) == [s EXCEPT !.dirty = @ \cup {w}]

\* db_session.commit(); ok = FALSE when the commit raises
session_commit(s, ok) ==
    [s EXCEPT !.commits = @ + 1, !.dirty = IF ok THEN {} ELSE @]

session_rollback(s) == [s EXCEPT !.rollbacks = @ + 1, !.dirty = {}]

session_close(s) == [s EXCEPT !.closes = @ + 1, !.state = "closed", !.dirty = {}]

\* A mutant of get_db_session_exit: the session is closed in the except
\* clause only, not in a finally clause.
get_db_session_exit_no_finally(s, raised) ==
    IF raised THEN session_close(session_rollback(s)) ELSE s

\* get_db_session, leaving the scope: roll back when a fault leaves the
\* scope, close in every case.
get_db_session_exit(s, raised) ==
    session_close(IF raised THEN session_rollback(s) ELSE s)

\* ------------------------------------------------------- the cache layer
\* Methods redis_cache may wrap, by the Python type of what they return.
WrappedFuncs == {"get_dict", "get_tuple", "get_set"}

ReturnKind(func) ==
    CASE func = "get_dict" -> "dict"
      [] func = "get_tuple" -> "tuple"
      [] func = "get_set" -> "set"

\* Arguments of a call: user identifiers, which are strings.
CallArgs == {"u1", "u2"}

\* str(arg) of a string
Str(arg) == arg

\* What the wrapped function computes from its argument and the data it reads.
func_result(func, arg, d) == [kind |-> ReturnKind(func), arg |-> arg, v |-> d]

NoValue == [kind |-> "none", arg |-> "none", v |-> 0]

\* _generate_cache_key: the function's name and str() of each argument
_generate_cache_key(func, arg) == <<"cache", func, Str(arg)>>

CacheKeys == {_generate_cache_key(f, a) : f \in WrappedFuncs, a \in CallArgs}

\* json.dumps raises TypeError for a set; a tuple is written as an array, as
\* a list is
Serializable(x) == x.kind # "set"

json_dumps(x) ==
    [json |-> IF x.kind = "dict" THEN "object" ELSE "array", arg |-> x.arg, v |-> x.v]

\* json.loads: an array is read as a list
json_loads(j) ==
    [kind |-> IF j.json = "object" THEN "dict" ELSE "list", arg |-> j.arg, v |-> j.v]

\* A key redis does not hold (redis.get gives None): time to live 0.
NoEntry == [value |-> json_dumps(NoValue), ttl |-> 0]

\* redis.setex(key, expiration, value)
setex(store, key, expiration, value) ==
    [store EXCEPT ![key] = [value |-> value, ttl |-> expiration]]

\* redis.get(key): the entry, None (NoEntry) once it has expired
redis_get(store, key) == IF store[key].ttl > 0 THEN store[key] ELSE NoEntry

\* the clock advances by one tick: entries age and expire
age(store) ==
    [k \in DOMAIN store |->
        IF store[k].ttl > 1 THEN [store[k] EXCEPT !.ttl = @ - 1] ELSE NoEntry]

NoCall == [func |-> "none", arg |-> "none"]

\* No cached call in progress, nothing cached.
CacheIdle ==
    /\ data = 1
    /\ cache_pc = "idle"
    /\ cache_call = NoCall
    /\ cache_result = NoValue
    /\ returned = NoValue
    /\ returned_plain = NoValue

\* ------------------------------------------------------ analyze-text
\* The two requests the endpoint is given.
AiReqs == {"first", "second"}
AiUsers == {123, 456}
Texts == {"text_a", "text_b"}
Scores == 1..MaxScore

\* sha256(f"{current_user.id}:{text}"): user identifiers are integers, so
\* the string, and with it the digest, is different for different pairs
analysis_key(user, text) == <<"analysis", user, text>>

AnalysisKeys == {analysis_key(u, t) : u \in AiUsers, t \in Texts}

RedisKeys == CacheKeys \cup AnalysisKeys

\* analyzer.analyze_topics(text): a list of label and score
analysis_results(text, score) == [kind |-> "list", arg |-> text, v |-> score]

\* A mutant of IsHit: no answer of redis counts as a hit.
IsHit_never(cached_result) == FALSE

\* `if cached_result:`: redis.get gave a string, not None
IsHit(cached_result) == cached_result # NoEntry

NoAiRequest == [user |-> 0, text |-> "none"]

AiIdle ==
    /\ ai_pc = [r \in AiReqs |-> "idle"]
    /\ ai_request = [r \in AiReqs |-> NoAiRequest]
    /\ ai_live = [r \in AiReqs |-> FALSE]
    /\ ai_called = [r \in AiReqs |-> 0]
    /\ ai_response = [r \in AiReqs |-> NoValue]

\* ------------------------------------------------------ user endpoints
UserRole == {"USER", "MODERATOR", "ADMIN"}

\* banned_until is None
NoBan == 0

Times == 1..MaxTime
Durations == 1..MaxDuration

\* get_password_hash
get_password_hash(password) == <<"bcrypt", password>>

\* verify_password
verify_password(plain_password, hashed_password) ==
    hashed_password = get_password_hash(plain_password)

\* wallet_address is None
NoWallet == "None"

\* A row of the users table.
User(id, email, role, banned_until) ==
    [id |-> id, email |-> email, hashed_password |-> get_password_hash("password"),
     role |-> role, banned_until |-> banned_until, wallet_address |-> NoWallet]

UserIds == 1..4
NoUser == 0

\* Identifiers a request may name: the users and one nobody has.
TargetIds == UserIds \cup {9}

Emails == {"admin@example.com", "admin2@example.com", "testuser@example.com",
           "moderator@example.com", "wrong@example.com"}
Passwords == {"password", "wrong_password"}

\* Two administrators, a user and a moderator; the ones drawn may be banned.
Accounts(b2, b3, b4) ==
    [id \in UserIds |->
        CASE id = 1 -> User(1, "admin@example.com", "ADMIN", NoBan)
          [] id = 2 -> User(2, "admin2@example.com", "ADMIN", b2)
          [] id = 3 -> User(3, "testuser@example.com", "USER", b3)
          [] id = 4 -> User(4, "moderator@example.com", "MODERATOR", b4)]

\* crud.get_user
get_user(table, user_id) == IF user_id \in DOMAIN table THEN user_id ELSE NoUser

\* crud.get_user_by_email
get_user_by_email(table, email) ==
    IF \E id \in DOMAIN table : table[id].email = email
    THEN CHOOSE id \in DOMAIN table : table[id].email = email
    ELSE NoUser

\* A mutant of IsBanned: a ban does not end with time.
IsBanned_forever(user, t) == user.banned_until # NoBan

\* line 47 of users.py: user.banned_until and user.banned_until > now
IsBanned(user, t) == user.banned_until # NoBan /\ user.banned_until > t

NoBody == [id |-> NoUser, banned_until |-> NoBan]

Response(op, caller, target, email, password, at, status, token, body) ==
    [op |-> op, caller |-> caller, target |-> target, email |-> email,
     password |-> password, at |-> at, status |-> status, token |-> token,
     body |-> body]

NoResponse == Response("none", NoUser, NoUser, "", "", 1, 0, NoUser, NoBody)

\* create_access_token(data={"sub": str(user.id)}): the token names the user
create_access_token(user_id) == user_id

\* A mutant of login_for_access_token: the ban is checked before the password.
login_ban_first(table, email, password, t) ==
    LET user == get_user_by_email(table, email) IN
    IF user # NoUser /\ IsBanned(table[user], t)
    THEN Response("login", NoUser, user, email, password, t, 403, NoUser, NoBody)
    ELSE IF user = NoUser \/ ~verify_password(password, table[user].hashed_password)
    THEN Response("login", NoUser, user, email, password, t, 401, NoUser, NoBody)
    ELSE Response("login", NoUser, user, email, password, t, 200,
                  create_access_token(user), NoBody)

\* login_for_access_token, lines 38-57 of users.py
login_for_access_token(table, email, password, t) ==
    LET user == get_user_by_email(table, email) IN
    IF user = NoUser \/ ~verify_password(password, table[user].hashed_password)
    THEN Response("login", NoUser, user, email, password, t, 401, NoUser, NoBody)
    ELSE IF IsBanned(table[user], t)
    THEN Response("login", NoUser, user, email, password, t, 403, NoUser, NoBody)
    ELSE Response("login", NoUser, user, email, password, t, 200,
                  create_access_token(user), NoBody)

\* RoleChecker(allowed_roles): the caller's role is one of the allowed ones
RoleChecker(allowed_roles, caller) == caller.role \in allowed_roles

allow_admin_only(caller) == RoleChecker({"ADMIN"}, caller)

\* What the endpoints pass as user_in: a dict, not a UserUpdate.
Dict(banned_until) ==
    [type |-> "dict", fields |-> [banned_until |-> banned_until]]

\* schemas.UserUpdate(...): the fields that were set
UserUpdate(fields) == [type |-> "UserUpdate", fields |-> fields]

\* schemas.UserCreate(email=..., password=..., role=...)
UserCreate(email, password, role) ==
    [email |-> email, password |-> password, role |-> role]

\* The role of a row created without one.
DefaultRole == "USER"

\* crud.update_user: line 43 calls user_in.model_dump, which a dict does not
\* have (AttributeError); with a UserUpdate a password given is hashed into
\* hashed_password (lines 45-48) and every other field given is set (lines
\* 50-51), then the row is committed
update_user(db_user, user_in) ==
    IF user_in.type # "UserUpdate"
    THEN [raised |-> TRUE, user |-> db_user]
    ELSE LET user_data == user_in.fields
             given(f) == f \in DOMAIN user_data
         IN [raised |-> FALSE,
             user |-> [db_user EXCEPT
                 !.hashed_password =
                     IF given("password") /\ user_data.password # ""
                     THEN get_password_hash(user_data.password) ELSE @,
                 !.role = IF given("role") THEN user_data.role ELSE @,
                 !.banned_until =
                     IF given("banned_until") THEN user_data.banned_until ELSE @,
                 !.wallet_address =
                     IF given("wallet_address") THEN user_data.wallet_address ELSE @]]

\* crud.create_user, lines 27-38 of crud.py: the row is built from the email
\* and the hashed password only; every other column takes its default
create_user(table, user) ==
    LET id == 1 + Cardinality(DOMAIN table) IN
    [i \in DOMAIN table \cup {id} |->
        IF i \in DOMAIN table THEN table[i]
        ELSE [id |-> id, email |-> user.email,
              hashed_password |-> get_password_hash(user.password),
              role |-> DefaultRole, banned_until |-> NoBan,
              wallet_address |-> NoWallet]]

\* A mutant of IsAdminTarget: no user is recognised as an administrator.
IsAdminTarget_never(user) == FALSE

\* line 145 of users.py: user_to_block.role == UserRole.ADMIN
IsAdminTarget(user) == user.role = "ADMIN"

\* A mutant of MayUpdate: every authenticated caller may update any profile.
MayUpdate_anyone(current_user, db_user) == TRUE

\* line 123 of users.py, negated: the caller owns the profile or is an
\* administrator
MayUpdate(current_user, db_user) ==
    current_user.id = db_user.id \/ current_user.role = "ADMIN"

\* What a PUT /{user_id} may carry.
UserUpdates == {UserUpdate([password |-> "new_password"]),
                UserUpdate([role |-> "MODERATOR"])}

\* create_admin.py, lines 17-18
admin_email == "info.minvestrk@bk.ru"
admin_password == "admin_password"

\* ------------------------------------------------------ linking a wallet
LinkReqs == {"first", "second"}
LinkUsers == {3, 4}
Wallets == {"0xA", "0xB"}
Nonces == 1..MaxNonce
NoNonce == 0

\* A signature: who signed, and the nonce in the message that was signed.
Signature(signer, nonce) == [signer |-> signer, nonce |-> nonce]

\* verify_signature(message, signature, expected_address), the message being
\* the fixed text with the nonce (line 243)
verify_signature(nonce, signature, expected_address) ==
    signature.signer = expected_address /\ signature.nonce = nonce

\* crud.get_user_by_wallet
get_user_by_wallet(table, wallet_address) ==
    IF \E id \in DOMAIN table : table[id].wallet_address = wallet_address
    THEN CHOOSE id \in DOMAIN table : table[id].wallet_address = wallet_address
    ELSE NoUser

\* redis_client.set(key, nonce, ex=300)
redis_set(store, key, value) == [store EXCEPT ![key] = value]

\* A mutant of redis_delete: the key stays.
redis_delete_keeps(store, key) == store

\* redis_client.delete(key)
redis_delete(store, key) == [store EXCEPT ![key] = NoNonce]

NoLinkReq == [caller |-> NoUser, wallet_address |-> NoWallet,
              signature |-> Signature(NoWallet, NoNonce)]

\* No nonce stored, no link_wallet request yet.
LinkIdle ==
    /\ link_wallet_nonce = [u \in LinkUsers |-> NoNonce]
    /\ next_nonce = 1
    /\ link_pc = [t \in LinkReqs |-> "idle"]
    /\ link_req = [t \in LinkReqs |-> NoLinkReq]
    /\ link_status = [t \in LinkReqs |-> 0]
    /\ verified = [t \in LinkReqs |-> NoNonce]

\* ------------------------------------------------------ the generic endpoint
HttpReqs == {"first", "second"}

\* A result mapping: its success flag, whether it has an "error" key, and
\* whether it is the handler's result or one the dispatcher made itself.
Result(origin, success, error) ==
    [origin |-> origin, success |-> success, error |-> error]

NoResult == Result("none", "absent", FALSE)

\* What process_request returns: the error-only results of lines 214 and
\* 219 (when a module is not registered or has no process_request), the
\* handler's result with the recommendations added (line 263), whose success
\* flag and error text are the handler's, and the internal-error result of
\* line 268.
DispatcherResults ==
    {Result("dispatcher", "absent", TRUE) :
        m \in {x \in ModuleType : x \notin modules \/ ~HasProcessRequest(x)}}
    \cup {Result("handler", flag, error) :
            flag \in {"true", "false", "absent"}, error \in BOOLEAN}
    \cup {Result("dispatcher", "false", TRUE)}

\* lines 15-17 of actions.py
handle_user_request(res) ==
    IF res.error /\ res.success = "false"
    THEN [status |-> 400, body |-> NoResult]
    ELSE [status |-> 200, body |-> res]

HttpIdle ==
    /\ http_pc = [t \in HttpReqs |-> "idle"]
    /\ http_request = [t \in HttpReqs |-> "None"]
    /\ http_result = [t \in HttpReqs |-> NoResult]
    /\ http_status = [t \in HttpReqs |-> 0]

\* ------------------------------------------------------ register_user
RegReqs == {"first", "second"}

\* user_data with every key register_user reads, or without 'phone'
UserData(email, complete) == [email |-> email, complete |-> complete]

NoUserData == UserData("none", FALSE)

RegEmails == {"a@example.com", "b@example.com"}

\* lines 125-126: a digest of the email and the time of the call; no two calls
\* get the same one
user_id_of(t) == t

RegIdle ==
    /\ reg_pc = [t \in RegReqs |-> "idle"]
    /\ reg_data = [t \in RegReqs |-> NoUserData]
    /\ reg_fault = [t \in RegReqs |-> "none"]
    /\ reg_result = [t \in RegReqs |-> "none"]
    /\ mubarak_users = {}
    /\ self_sessions = {}

\* ------------------------------------------------------ websockets
WebSockets == {"ws1", "ws2"}
WaqfIds == {1, 2}

\* The sockets in a list.
Members(connections) == {connections[i] : i \in DOMAIN connections}

\* ConnectionManager.connect, lines 15-17 of websockets.py, after the accept
connect(connections, websocket, waqf_id) ==
    [connections EXCEPT ![waqf_id] = Append(@, websocket)]

\* ConnectionManager.disconnect, lines 20-21
disconnect(connections, websocket, waqf_id) ==
    [connections EXCEPT ![waqf_id] = SelectSeq(@, LAMBDA c : c # websocket)]

\* line 273 of waqf.py: the only await in the try block of websocket_endpoint
\* is asyncio.sleep(1), which does not raise WebSocketDisconnect; the
\* endpoint never calls a receive method of the socket
SleepRaisesWebSocketDisconnect(websocket) == FALSE

\* No socket, no broadcast yet; a project without a key has no connections.
WsIdle ==
    /\ active_connections = [w \in WaqfIds |-> <<>>]
    /\ ws_pc = [s \in WebSockets |-> "none"]
    /\ ws_waqf = [s \in WebSockets |-> 0]
    /\ client = [s \in WebSockets |-> "none"]
    /\ bc_pc = "idle"
    /\ bc_waqf = 0
    /\ bc_i = 0
    /\ broadcasts = 0
    /\ received = [s \in WebSockets |-> 0]

\* ------------------------------------------------------ user endpoints, idle
\* Nobody banned, no request to a user endpoint yet.
UsersIdle ==
    /\ users = Accounts(NoBan, NoBan, NoBan)
    /\ now = 1
    /\ last = NoResponse

\* ------------------------------------------------------------------- state
NoRequest == [module |-> "None", user_id |-> "None", user_language |-> "None"]

\* Nothing received yet, the periodic task asleep, the chain at its genesis.
InitTasks ==
    /\ pc = [r \in Reqs |-> "idle"]
    /\ request = [r \in Reqs |-> NoRequest]
    /\ module_type = [r \in Reqs |-> "None"]
    /\ sid = [r \in Reqs |-> 0]
    /\ sessions = <<>>
    /\ db = {}
    /\ result = [r \in Reqs |-> "none"]
    /\ response = [r \in Reqs |-> "none"]
    /\ fault = [r \in Reqs |-> "none"]
    /\ reached = [r \in Reqs |-> FALSE]
    /\ sealedBy = [r \in Reqs |-> 0]
    /\ chain = <<Genesis>>
    /\ seals = 0
    /\ periodic = "sleeping"
    /\ redis = [k \in RedisKeys |-> NoEntry]
    /\ CacheIdle
    /\ AiIdle
    /\ LinkIdle
    /\ HttpIdle
    /\ RegIdle
    /\ WsIdle

\* The pool may hold transactions that earlier requests left pending.
Init ==
    /\ InitTasks
    /\ UsersIdle
    /\ \E k \in {0, MaxInitPool} :
         /\ pending_transactions = NewTxs("u1", "waqf", 5, 1, k)
         /\ next_tx = k + 1

\* A mutant of ResolveModuleType: only an absent tag falls back, an empty one
\* is looked up.
ResolveModuleType_empty_is_looked_up(module_name) ==
    IF module_name = "None" THEN "FARD_AI"
    ELSE IF module_name \in ModuleType THEN module_name
    ELSE "ValueError"

\* ModuleType(module_name) if module_name else ModuleType.FARD_AI; looking up
\* a value that is no member of the enumeration raises ValueError.
ResolveModuleType(module_name) ==
    IF module_name \in {"None", ""} THEN "FARD_AI"
    ELSE IF module_name \in ModuleType THEN module_name
    ELSE "ValueError"

\* A fault raised inside the try block (lines 265-268): the except clause
\* returns the internal-error result; the return leaves the session scope
\* without a fault, so get_db_session only closes the session.
Raise(r, where, ss) ==
    /\ fault' = [fault EXCEPT ![r] = where]
    /\ sessions' = [ss EXCEPT ![sid[r]] = get_db_session_exit(@, FALSE)]
    /\ response' = [response EXCEPT ![r] = "internal_error"]
    /\ request' = [request EXCEPT ![r] = NoRequest]
    /\ module_type' = [module_type EXCEPT ![r] = "None"]
    /\ pc' = [pc EXCEPT ![r] = "done"]

\* ------------------------------------------------- process_request, by step
\* lines 203-225: resolve the module and enter the session scope, up to the
\* first await.  Requests are numbered in their order of arrival.
Receive(r) ==
    /\ pc[r] = "idle"
    /\ \A q \in Reqs : q < r => pc[q] # "idle"
    /\ \E tag \in RequestTags, user \in Users :
         LET mt == ResolveModuleType(tag) IN
         IF mt = "ValueError"
         THEN /\ request' = [request EXCEPT ![r] =
                               [module |-> tag, user_id |-> user,
                                user_language |-> "None"]]
              /\ fault' = [fault EXCEPT ![r] = "resolve"]
              /\ response' = [response EXCEPT ![r] = "raised"]
              /\ pc' = [pc EXCEPT ![r] = "done"]
              /\ UNCHANGED <<module_type, sid, sessions>>
         ELSE /\ module_type' = [module_type EXCEPT ![r] = mt]
              /\ UNCHANGED fault
              /\ IF mt \notin modules
                 THEN /\ request' = [request EXCEPT ![r] =
                                       [module |-> tag, user_id |-> user,
                                        user_language |-> "None"]]
                      /\ response' = [response EXCEPT ![r] = "module_not_found"]
                      /\ pc' = [pc EXCEPT ![r] = "done"]
                      /\ UNCHANGED <<sid, sessions>>
                 ELSE IF ~HasProcessRequest(mt)
                 THEN /\ response' = [response EXCEPT ![r] = "no_method"]
                      /\ pc' = [pc EXCEPT ![r] = "done"]
                      /\ UNCHANGED <<request, sid, sessions>>
                 ELSE /\ request' = [request EXCEPT ![r] =
                                       [module |-> tag, user_id |-> user,
                                        user_language |-> "None"]]
                      /\ sessions' = Append(sessions, Session)
                      /\ sid' = [sid EXCEPT ![r] = Len(sessions) + 1]
                      /\ pc' = [pc EXCEPT ![r] = "query"]
                      /\ UNCHANGED response
    /\ UNCHANGED <<db, result, reached, sealedBy, pending_transactions, chain,
                   seals, next_tx, periodic>>
    /\ UNCHANGED otherVars

\* lines 225-227: the user's language is put in the envelope when there is one
QueryLanguage(r) ==
    /\ pc[r] = "query"
    /\ \E out \in {"found", "missing", "fault"} :
         IF out = "fault"
         THEN Raise(r, "query", sessions)
         ELSE /\ request' = [request EXCEPT ![r].user_language =
                                IF out = "found" THEN "ru" ELSE @]
              /\ pc' = [pc EXCEPT ![r] = "delegate"]
              /\ UNCHANGED <<fault, sessions, response, module_type>>
    /\ UNCHANGED <<sid, db, result, reached, sealedBy,
                   pending_transactions, chain, seals, next_tx, periodic>>
    /\ UNCHANGED otherVars

\* line 231: the module handler.  It may write through the session, put
\* transactions in the ledger's pool, and returns a result or raises.  After
\* this call the envelope and the module are only logged: they are dropped.
Delegate(r) ==
    /\ pc[r] = "delegate"
    /\ \E flag \in {"true", "false", "absent", "fault"}, writes \in BOOLEAN,
          n \in 0..MaxTxPerCall :
         LET ss == [sessions EXCEPT ![sid[r]] =
                      IF writes THEN session_add(@, r) ELSE @] IN
         /\ add_transactions(request[r].user_id, "waqf", 5, n)
         /\ IF flag = "fault"
            THEN Raise(r, "handler", ss) /\ UNCHANGED result
            ELSE /\ result' = [result EXCEPT ![r] = flag]
                 /\ sessions' = ss
                 /\ request' = [request EXCEPT ![r] = NoRequest]
                 /\ module_type' = [module_type EXCEPT ![r] = "None"]
                 /\ pc' = [pc EXCEPT ![r] = "settle"]
                 /\ UNCHANGED <<fault, response>>
    /\ UNCHANGED <<sid, db, reached, sealedBy, chain, seals, periodic>>
    /\ UNCHANGED otherVars

\* A mutant of ShouldCommit: a result without a success flag counts as success.
ShouldCommit_absent_is_success(flag) == flag # "false"

\* line 235: result.get("success") is truthy
ShouldCommit(flag) == flag = "true"

\* lines 235-251: commit when the result's success flag is truthy, roll back
\* otherwise (either call may raise); then, when the pool has reached the
\* threshold, log through self.logger and create a block
Settle(r) ==
    /\ pc[r] = "settle"
    /\ \E ok \in BOOLEAN :
         LET s  == sessions[sid[r]]
             commit == ShouldCommit(result[r])
             ss == [sessions EXCEPT ![sid[r]] =
                      IF commit THEN session_commit(@, ok)
                      ELSE session_rollback(@)]
             full == Len(pending_transactions) >= BLOCK_CREATION_THRESHOLD
         IN
         /\ db' = IF commit /\ ok THEN db \cup s.dirty ELSE db
         /\ IF ~ok
            THEN /\ Raise(r, IF commit THEN "commit" ELSE "rollback", ss)
                 /\ UNCHANGED <<reached, sealedBy, pending_transactions, chain, seals>>
            ELSE /\ reached' = [reached EXCEPT ![r] = full]
                 /\ IF full
                    THEN IF HasSelfLogger
                         THEN /\ \E proof \in Proofs : create_block(proof, NodeId)
                              /\ sealedBy' = [sealedBy EXCEPT ![r] = @ + 1]
                              /\ sessions' = ss
                              /\ pc' = [pc EXCEPT ![r] = "recommend"]
                              /\ UNCHANGED <<fault, response, request, module_type>>
                         ELSE /\ Raise(r, "seal", ss)
                              /\ UNCHANGED <<sealedBy, pending_transactions, chain, seals>>
                    ELSE /\ sessions' = ss
                         /\ pc' = [pc EXCEPT ![r] = "recommend"]
                         /\ UNCHANGED <<fault, response, request, module_type,
                                        sealedBy, pending_transactions, chain, seals>>
    /\ UNCHANGED <<sid, result, next_tx, periodic>>
    /\ UNCHANGED otherVars

\* lines 253-263 with lines 119-120: generate the recommendations, build the
\* final response and return it through the session scope
Recommend(r) ==
    /\ pc[r] = "recommend"
    /\ \E ok \in BOOLEAN :
         IF ok
         THEN /\ sessions' = [sessions EXCEPT ![sid[r]] = get_db_session_exit(@, FALSE)]
              /\ response' = [response EXCEPT ![r] = "result"]
              /\ request' = [request EXCEPT ![r] = NoRequest]
              /\ module_type' = [module_type EXCEPT ![r] = "None"]
              /\ pc' = [pc EXCEPT ![r] = "done"]
              /\ UNCHANGED fault
         ELSE Raise(r, "recommend", sessions)
    /\ UNCHANGED <<sid, db, result, reached, sealedBy,
                   pending_transactions, chain, seals, next_tx, periodic>>
    /\ UNCHANGED otherVars

\* ------------------------------------------- _periodic_block_creation_task
\* lines 101-107: one wake-up of the task.  Both branches log through
\* self.logger first; a fault ends the task.
PeriodicTick ==
    /\ periodic = "sleeping"
    /\ IF pending_transactions # <<>>
       THEN IF HasSelfLogger
            THEN /\ \E proof \in Proofs : create_block(proof, NodeId)
                 /\ UNCHANGED periodic
            ELSE /\ periodic' = "failed"
                 /\ UNCHANGED <<pending_transactions, chain, seals>>
       ELSE /\ periodic' = IF HasSelfLogger THEN "sleeping" ELSE "failed"
            /\ UNCHANGED <<pending_transactions, chain, seals>>
    /\ UNCHANGED <<pc, request, module_type, sid, sessions, db, result, response,
                   fault, reached, sealedBy, next_tx>>
    /\ UNCHANGED otherVars

Next ==
    \/ \E r \in Reqs : Receive(r)
    \/ \E r \in Reqs : QueryLanguage(r)
    \/ \E r \in Reqs : Delegate(r)
    \/ \E r \in Reqs : Settle(r)
    \/ \E r \in Reqs : Recommend(r)
    \/ PeriodicTick

Spec == Init /\ [][Next]_vars

\* The event loop runs every task that can take a step: each request goes on
\* from one await to the next, and the periodic task wakes up when its sleep
\* is over.
FairSpec ==
    /\ Spec
    /\ WF_vars(PeriodicTick)
    /\ \A r \in Reqs :
          WF_vars(QueryLanguage(r) \/ Delegate(r) \/ Settle(r) \/ Recommend(r))

\* ------------------------------------------------- the ledger, called directly
\* add_transaction and create_block as any holder of the ledger calls them
LedgerInit ==
    /\ InitTasks
    /\ UsersIdle
    /\ pending_transactions = <<>>
    /\ next_tx = 1

LedgerAdd ==
    /\ next_tx <= MaxLedgerTx
    /\ \E amount \in Amounts : add_transactions("u1", "waqf", amount, 1)
    /\ UNCHANGED <<reqVars, chain, seals>>
    /\ UNCHANGED otherVars

LedgerSeal ==
    /\ seals < MaxSeals
    /\ \E proof \in Proofs, miner \in Miners : create_block(proof, miner)
    /\ UNCHANGED <<reqVars, next_tx>>
    /\ UNCHANGED otherVars

LedgerNext == LedgerAdd \/ LedgerSeal

LedgerSpec == LedgerInit /\ [][LedgerNext]_vars

\* ------------------------------------------------- redis_cache's wrapper
\* The same calls are made on an object with self.redis configured and on
\* one without; the object without redis calls the wrapped function at once
\* (lines 26-28), at the moment the other one answers from the cache or calls
\* the function itself.

\* lines 24-36: the key, redis.get, and the return of a cached value
CacheGet ==
    /\ cache_pc = "idle"
    /\ \E func \in WrappedFuncs, arg \in CallArgs :
         LET cached_result == redis_get(redis, _generate_cache_key(func, arg)) IN
         IF IsHit(cached_result)
         THEN /\ returned' = json_loads(cached_result.value)
              /\ returned_plain' = func_result(func, arg, data)
              /\ UNCHANGED <<cache_pc, cache_call>>
         ELSE /\ cache_call' = [func |-> func, arg |-> arg]
              /\ cache_pc' = "func"
              /\ UNCHANGED <<returned, returned_plain>>
    /\ UNCHANGED <<mainVars, moreVars, redis, data, cache_result>>
    /\ UNCHANGED aiVars
    /\ UNCHANGED userVars

\* line 40: a miss, the wrapped function is called
CacheFunc ==
    /\ cache_pc = "func"
    /\ cache_result' = func_result(cache_call.func, cache_call.arg, data)
    /\ returned_plain' = func_result(cache_call.func, cache_call.arg, data)
    /\ cache_pc' = "store"
    /\ UNCHANGED <<mainVars, moreVars, redis, data, cache_call, returned>>
    /\ UNCHANGED aiVars
    /\ UNCHANGED userVars

\* lines 43-50: the result is serialised and stored with its time to live; a
\* result json.dumps refuses is logged and not stored
CacheStore ==
    /\ cache_pc = "store"
    /\ IF Serializable(cache_result)
       THEN /\ redis' = setex(redis, _generate_cache_key(cache_call.func, cache_call.arg),
                              ExpirationTicks, json_dumps(cache_result))
            /\ returned' = cache_result
       ELSE /\ returned' = cache_result
            /\ UNCHANGED redis
    /\ cache_pc' = "idle"
    /\ cache_call' = NoCall
    /\ cache_result' = NoValue
    /\ UNCHANGED <<mainVars, moreVars, data, returned_plain>>
    /\ UNCHANGED aiVars
    /\ UNCHANGED userVars

\* the data behind the wrapped functions changes
ChangeData ==
    /\ \E d \in (1..MaxData) \ {data} : data' = d
    /\ UNCHANGED <<mainVars, moreVars, redis, cache_pc, cache_call, cache_result,
                   returned, returned_plain>>
    /\ UNCHANGED aiVars
    /\ UNCHANGED userVars

\* one tick of the clock
Tick ==
    /\ \E k \in RedisKeys : redis[k].ttl > 0
    /\ redis' = age(redis)
    /\ UNCHANGED <<mainVars, moreVars, cacheVars, aiVars>>
    /\ UNCHANGED userVars

CacheNext == CacheGet \/ CacheFunc \/ CacheStore \/ ChangeData \/ Tick

CacheSpec == LedgerInit /\ [][CacheNext]_vars

\* ------------------------------------------------- analyze_user_text
\* lines 33-40: the key, redis.get, and the response from a cached result
AiGet(r) ==
    /\ ai_pc[r] = "idle"
    /\ \E user \in AiUsers, text \in Texts :
         LET cached_result == redis_get(redis, analysis_key(user, text)) IN
         /\ ai_request' = [ai_request EXCEPT ![r] = [user |-> user, text |-> text]]
         /\ ai_live' = [ai_live EXCEPT ![r] = redis[analysis_key(user, text)].ttl > 0]
         /\ IF IsHit(cached_result)
            THEN /\ ai_response' = [ai_response EXCEPT ![r] =
                                      json_loads(cached_result.value)]
                 /\ ai_pc' = [ai_pc EXCEPT ![r] = "done"]
            ELSE /\ ai_pc' = [ai_pc EXCEPT ![r] = "analyze"]
                 /\ UNCHANGED ai_response
    /\ UNCHANGED <<mainVars, moreVars, redis, cacheVars, ai_called>>
    /\ UNCHANGED userVars

\* lines 42-51: a miss: the analysis, redis.set with the expiration, the response
AiAnalyze(r) ==
    /\ ai_pc[r] = "analyze"
    /\ \E score \in Scores :
         LET results == analysis_results(ai_request[r].text, score) IN
         /\ ai_called' = [ai_called EXCEPT ![r] = @ + 1]
         /\ redis' = setex(redis, analysis_key(ai_request[r].user, ai_request[r].text),
                           ExpirationTicks, json_dumps(results))
         /\ ai_response' = [ai_response EXCEPT ![r] = results]
    /\ ai_pc' = [ai_pc EXCEPT ![r] = "done"]
    /\ UNCHANGED <<mainVars, moreVars, cacheVars, ai_request, ai_live>>
    /\ UNCHANGED userVars

AnalysisNext ==
    \/ \E r \in AiReqs : AiGet(r)
    \/ \E r \in AiReqs : AiAnalyze(r)
    \/ Tick

AnalysisSpec == LedgerInit /\ [][AnalysisNext]_vars

\* ------------------------------------------------- the user endpoints
\* The users table as earlier requests may have left it.
UserInit ==
    /\ InitTasks
    /\ pending_transactions = <<>>
    /\ next_tx = 1
    /\ \E b2 \in {NoBan, MaxTime}, b3 \in {NoBan} \cup Times, b4 \in {NoBan, MaxTime} :
         users = Accounts(b2, b3, b4)
    /\ now = 1
    /\ last = NoResponse

\* POST /login
Login ==
    /\ \E email \in Emails, password \in Passwords :
         last' = login_for_access_token(users, email, password, now)
    /\ UNCHANGED <<mainVars, moreVars, redis, cacheVars, aiVars, users, now>>

\* POST /{user_id}/block, lines 130-161 of users.py, called by an
\* authenticated user
BlockUser ==
    /\ \E caller \in UserIds, user_id \in TargetIds, duration \in Durations :
         LET user_to_block == get_user(users, user_id)
             banned_until_date == now + duration
             refused(status) ==
                 /\ last' = Response("block", caller, user_id, "", "", now, status,
                                     NoUser, NoBody)
                 /\ UNCHANGED users
         IN
         IF ~allow_admin_only(users[caller]) THEN refused(403)
         ELSE IF user_to_block = NoUser THEN refused(404)
         ELSE IF IsAdminTarget(users[user_to_block]) THEN refused(403)
         ELSE LET updated == update_user(users[user_to_block], Dict(banned_until_date)) IN
              IF updated.raised THEN refused(500)
              ELSE /\ users' = [users EXCEPT ![user_to_block] = updated.user]
                   /\ last' = Response("block", caller, user_id, "", "", now, 200, NoUser,
                                       [id |-> updated.user.id,
                                        banned_until |-> updated.user.banned_until])
    /\ UNCHANGED <<mainVars, moreVars, redis, cacheVars, aiVars, now>>

\* POST /{user_id}/unblock, lines 164-186 of users.py
UnblockUser ==
    /\ \E caller \in UserIds, user_id \in TargetIds :
         LET user_to_unblock == get_user(users, user_id)
             refused(status) ==
                 /\ last' = Response("unblock", caller, user_id, "", "", now, status,
                                     NoUser, NoBody)
                 /\ UNCHANGED users
         IN
         IF ~allow_admin_only(users[caller]) THEN refused(403)
         ELSE IF user_to_unblock = NoUser THEN refused(404)
         ELSE LET updated == update_user(users[user_to_unblock], Dict(NoBan)) IN
              IF updated.raised THEN refused(500)
              ELSE /\ users' = [users EXCEPT ![user_to_unblock] = updated.user]
                   /\ last' = Response("unblock", caller, user_id, "", "", now, 200,
                                       NoUser,
                                       [id |-> updated.user.id,
                                        banned_until |-> updated.user.banned_until])
    /\ UNCHANGED <<mainVars, moreVars, redis, cacheVars, aiVars, now>>

\* time passes
AdvanceClock ==
    /\ now < MaxTime
    /\ now' = now + 1
    /\ UNCHANGED <<mainVars, moreVars, redis, cacheVars, aiVars, users, last>>

UserNext == Login \/ BlockUser \/ UnblockUser \/ AdvanceClock

UserSpec == UserInit /\ [][UserNext]_vars

\* ------------------------------------------------- profiles
\* The user fixtures; a user with the administrator's email may have
\* registered earlier, as any user does.
ProfileInit ==
    /\ InitTasks
    /\ pending_transactions = <<>>
    /\ next_tx = 1
    /\ \E registered \in BOOLEAN :
         users = IF registered
                 THEN create_user(Accounts(NoBan, NoBan, NoBan),
                                  UserCreate(admin_email, "password", "USER"))
                 ELSE Accounts(NoBan, NoBan, NoBan)
    /\ now = 1
    /\ last = NoResponse

\* PUT /{user_id}, lines 106-127 of users.py, called by an authenticated user
UpdateUser ==
    /\ \E caller \in DOMAIN users, user_id \in DOMAIN users \cup {9},
          user_in \in UserUpdates :
         LET db_user == get_user(users, user_id)
             refused(status) ==
                 /\ last' = Response("update", caller, user_id, "", "", now, status,
                                     NoUser, NoBody)
                 /\ UNCHANGED users
         IN
         IF db_user = NoUser THEN refused(404)
         ELSE IF ~MayUpdate(users[caller], users[db_user]) THEN refused(403)
         ELSE LET updated == update_user(users[db_user], user_in) IN
              IF updated.raised THEN refused(500)
              ELSE /\ users' = [users EXCEPT ![db_user] = updated.user]
                   /\ last' = Response("update", caller, user_id, "", "", now, 200,
                                       NoUser,
                                       [id |-> updated.user.id,
                                        banned_until |-> updated.user.banned_until])
    /\ UNCHANGED <<mainVars, moreVars, redis, cacheVars, aiVars, now>>

\* create_or_update_admin_user, lines 12-44 of create_admin.py
CreateOrUpdateAdmin ==
    /\ LET existing_user == get_user_by_email(users, admin_email) IN
       IF existing_user # NoUser
       THEN LET updated == update_user(users[existing_user],
                               UserUpdate([password |-> admin_password,
                                           role |-> "ADMIN"])) IN
            /\ users' = [users EXCEPT ![existing_user] = updated.user]
            /\ last' = Response("create_admin", NoUser, existing_user, admin_email,
                                admin_password, now, 0, NoUser, NoBody)
       ELSE LET table == create_user(users, UserCreate(admin_email, admin_password,
                                                       "ADMIN")) IN
            /\ users' = table
            /\ last' = Response("create_admin", NoUser,
                                get_user_by_email(table, admin_email), admin_email,
                                admin_password, now, 0, NoUser, NoBody)
    /\ UNCHANGED <<mainVars, moreVars, redis, cacheVars, aiVars, now>>

ProfileNext == UpdateUser \/ CreateOrUpdateAdmin

ProfileSpec == ProfileInit /\ [][ProfileNext]_vars

\* ------------------------------------------------- linking a wallet
\* GET /me/link-wallet-message, lines 200-213 of users.py
GetLinkWalletMessage ==
    /\ next_nonce <= MaxNonce
    /\ \E current_user \in LinkUsers :
         link_wallet_nonce' = redis_set(link_wallet_nonce, current_user, next_nonce)
    /\ next_nonce' = next_nonce + 1
    /\ UNCHANGED <<mainVars, redis, cacheVars, aiVars, userVars, httpVars, regVars, wsVars,
                   link_pc, link_req, link_status, verified>>

\* ex=300: a stored nonce expires
ExpireNonce ==
    /\ \E u \in LinkUsers :
         /\ link_wallet_nonce[u] # NoNonce
         /\ link_wallet_nonce' = [link_wallet_nonce EXCEPT ![u] = NoNonce]
    /\ UNCHANGED <<mainVars, redis, cacheVars, aiVars, userVars, httpVars, regVars, wsVars,
                   next_nonce, link_pc, link_req, link_status, verified>>

\* POST /me/link-wallet arrives and awaits get_user_by_wallet (line 226).  The
\* client signs with the wallet it names; the nonce it signed is any.
LinkCall(t) ==
    /\ link_pc[t] = "idle"
    /\ \E current_user \in LinkUsers, wallet_address \in Wallets, nonce \in Nonces :
         link_req' = [link_req EXCEPT ![t] =
                        [caller |-> current_user, wallet_address |-> wallet_address,
                         signature |-> Signature(wallet_address, nonce)]]
    /\ link_pc' = [link_pc EXCEPT ![t] = "lookup"]
    /\ UNCHANGED <<mainVars, redis, cacheVars, aiVars, userVars, httpVars, regVars, wsVars,
                   link_wallet_nonce, next_nonce, link_status, verified>>

\* lines 226-257: the lookup answers; then, with no await in between, the
\* nonce is read, the signature verified and the nonce deleted; a valid
\* request goes on to await the commit in crud.update_user
LinkCheck(t) ==
    /\ link_pc[t] = "lookup"
    /\ LET current_user == link_req[t].caller
           request_data == link_req[t]
           existing_user == get_user_by_wallet(users, request_data.wallet_address)
           nonce == link_wallet_nonce[current_user]
           is_valid == verify_signature(nonce, request_data.signature,
                                        request_data.wallet_address)
           ends(status) ==
               /\ link_status' = [link_status EXCEPT ![t] = status]
               /\ link_pc' = [link_pc EXCEPT ![t] = "done"]
       IN
       IF existing_user # NoUser /\ existing_user # current_user
       THEN ends(409) /\ UNCHANGED <<link_wallet_nonce, verified>>
       ELSE IF nonce = NoNonce
       THEN ends(408) /\ UNCHANGED <<link_wallet_nonce, verified>>
       ELSE /\ verified' = [verified EXCEPT ![t] = nonce]
            /\ link_wallet_nonce' = redis_delete(link_wallet_nonce, current_user)
            /\ IF ~is_valid
               THEN ends(400)
               ELSE /\ link_pc' = [link_pc EXCEPT ![t] = "update"]
                    /\ UNCHANGED link_status
    /\ UNCHANGED <<mainVars, redis, cacheVars, aiVars, userVars, httpVars, regVars, wsVars,
                   next_nonce, link_req>>

\* lines 257-259 with lines 53-56 of crud.py: the commit is done
LinkCommit(t) ==
    /\ link_pc[t] = "update"
    /\ LET current_user == link_req[t].caller
           user_in == UserUpdate([wallet_address |-> link_req[t].wallet_address])
           updated == update_user(users[current_user], user_in)
       IN users' = [users EXCEPT ![current_user] = updated.user]
    /\ link_status' = [link_status EXCEPT ![t] = 200]
    /\ link_pc' = [link_pc EXCEPT ![t] = "done"]
    /\ UNCHANGED <<mainVars, redis, cacheVars, aiVars, now, last, httpVars, regVars, wsVars,
                   link_wallet_nonce, next_nonce, link_req, verified>>

LinkNext ==
    \/ GetLinkWalletMessage
    \/ ExpireNonce
    \/ \E t \in LinkReqs : LinkCall(t)
    \/ \E t \in LinkReqs : LinkCheck(t)
    \/ \E t \in LinkReqs : LinkCommit(t)

LinkSpec == LedgerInit /\ [][LinkNext]_vars

\* ------------------------------------------------- the generic endpoint
\* lines 13-14 of actions.py: the envelope is built and process_request awaited
HttpCall(t) ==
    /\ http_pc[t] = "idle"
    /\ \E tag \in RequestTags \ {"None"} :
         http_request' = [http_request EXCEPT ![t] = tag]
    /\ http_pc' = [http_pc EXCEPT ![t] = "awaiting"]
    /\ UNCHANGED <<mainVars, redis, cacheVars, aiVars, userVars, linkVars, regVars, wsVars,
                   http_result, http_status>>

\* lines 14-17: process_request raises for a tag that names no module type
\* (line 210 of main_app.py) and returns a result otherwise
HttpReturn(t) ==
    /\ http_pc[t] = "awaiting"
    /\ IF ResolveModuleType(http_request[t]) = "ValueError"
       THEN /\ http_status' = [http_status EXCEPT ![t] = 500]
            /\ UNCHANGED http_result
       ELSE \E res \in DispatcherResults :
              /\ http_result' = [http_result EXCEPT ![t] = res]
              /\ http_status' = [http_status EXCEPT ![t] =
                                   handle_user_request(res).status]
    /\ http_pc' = [http_pc EXCEPT ![t] = "done"]
    /\ UNCHANGED <<mainVars, redis, cacheVars, aiVars, userVars, linkVars, regVars, wsVars,
                   http_request>>

ActionsNext ==
    \/ \E t \in HttpReqs : HttpCall(t)
    \/ \E t \in HttpReqs : HttpReturn(t)

ActionsSpec == LedgerInit /\ [][ActionsNext]_vars

\* ------------------------------------------------- register_user
\* lines 179-181: any fault ends the call with (False, str(e), {})
RegFails(t, where) ==
    /\ reg_fault' = [reg_fault EXCEPT ![t] = where]
    /\ reg_result' = [reg_result EXCEPT ![t] = "False"]
    /\ reg_pc' = [reg_pc EXCEPT ![t] = "done"]

\* lines 124-152: the user is built from user_data (a missing key raises
\* KeyError), the row is added and the commit awaited
RegStart(t) ==
    /\ reg_pc[t] = "idle"
    /\ \E email \in RegEmails, complete \in BOOLEAN :
         /\ reg_data' = [reg_data EXCEPT ![t] = UserData(email, complete)]
         /\ IF complete
            THEN /\ reg_pc' = [reg_pc EXCEPT ![t] = "commit"]
                 /\ UNCHANGED <<reg_fault, reg_result>>
            ELSE RegFails(t, "user_data")
    /\ UNCHANGED <<mainVars, redis, cacheVars, aiVars, userVars, linkVars, httpVars,
                   wsVars, mubarak_users, self_sessions>>

\* lines 152-158 with lines 116-120: the commit is done or raises (the
\* session is rolled back and closed); then the modules' initialize is awaited
RegCommit(t) ==
    /\ reg_pc[t] = "commit"
    /\ \E ok \in BOOLEAN :
         IF ok
         THEN /\ mubarak_users' = mubarak_users \cup {user_id_of(t)}
              /\ reg_pc' = [reg_pc EXCEPT ![t] = "initialize"]
              /\ UNCHANGED <<reg_fault, reg_result>>
         ELSE /\ RegFails(t, "commit")
              /\ UNCHANGED mubarak_users
    /\ UNCHANGED <<mainVars, redis, cacheVars, aiVars, userVars, linkVars, httpVars,
                   wsVars, reg_data, self_sessions>>

\* lines 158-178: the modules' initialize returns or raises; then, with no
\* suspension in between, the entry of self.sessions is written, the welcome
\* package is generated (it may raise) and the result is returned
RegInitialize(t) ==
    /\ reg_pc[t] = "initialize"
    /\ \E initialized \in BOOLEAN, welcomed \in BOOLEAN :
         IF ~initialized
         THEN RegFails(t, "initialize") /\ UNCHANGED self_sessions
         ELSE /\ self_sessions' = self_sessions \cup {user_id_of(t)}
              /\ IF ~welcomed
                 THEN RegFails(t, "welcome_package")
                 ELSE /\ reg_result' = [reg_result EXCEPT ![t] = "True"]
                      /\ reg_pc' = [reg_pc EXCEPT ![t] = "done"]
                      /\ UNCHANGED reg_fault
    /\ UNCHANGED <<mainVars, redis, cacheVars, aiVars, userVars, linkVars, httpVars,
                   wsVars, reg_data, mubarak_users>>

RegisterNext ==
    \/ \E t \in RegReqs : RegStart(t)
    \/ \E t \in RegReqs : RegCommit(t)
    \/ \E t \in RegReqs : RegInitialize(t)

RegisterSpec == LedgerInit /\ [][RegisterNext]_vars

\* ------------------------------------------------- websockets
\* A client opens /ws/{waqf_id}/subscribe: websocket_endpoint calls
\* manager.connect, which awaits websocket.accept() (line 14 of websockets.py)
WsOpen(s) ==
    /\ ws_pc[s] = "none"
    /\ \E waqf_id \in WaqfIds : ws_waqf' = [ws_waqf EXCEPT ![s] = waqf_id]
    /\ ws_pc' = [ws_pc EXCEPT ![s] = "accepting"]
    /\ client' = [client EXCEPT ![s] = "connected"]
    /\ UNCHANGED <<mainVars, redis, cacheVars, aiVars, userVars, linkVars, httpVars,
                   regVars, active_connections, bc_pc, bc_waqf, bc_i, broadcasts,
                   received>>

\* lines 15-17 of websockets.py: the socket is put in its project's list and
\* the endpoint enters its loop
WsAccepted(s) ==
    /\ ws_pc[s] = "accepting"
    /\ active_connections' = connect(active_connections, s, ws_waqf[s])
    /\ ws_pc' = [ws_pc EXCEPT ![s] = "sleeping"]
    /\ UNCHANGED <<mainVars, redis, cacheVars, aiVars, userVars, linkVars, httpVars,
                   regVars, ws_waqf, client, bc_pc, bc_waqf, bc_i, broadcasts,
                   received>>

\* The client closes the connection.
ClientDisconnects(s) ==
    /\ ws_pc[s] = "sleeping"
    /\ client[s] = "connected"
    /\ client' = [client EXCEPT ![s] = "gone"]
    /\ UNCHANGED <<mainVars, redis, cacheVars, aiVars, userVars, linkVars, httpVars,
                   regVars, active_connections, ws_pc, ws_waqf, bc_pc, bc_waqf,
                   bc_i, broadcasts, received>>

\* lines 269-276 of waqf.py: one turn of the loop
WsSleep(s) ==
    /\ ws_pc[s] = "sleeping"
    /\ IF client[s] = "gone" /\ SleepRaisesWebSocketDisconnect(s)
       THEN /\ active_connections' = disconnect(active_connections, s, ws_waqf[s])
            /\ ws_pc' = [ws_pc EXCEPT ![s] = "ended"]
       ELSE UNCHANGED <<active_connections, ws_pc>>
    /\ UNCHANGED <<mainVars, redis, cacheVars, aiVars, userVars, linkVars, httpVars,
                   regVars, ws_waqf, client, bc_pc, bc_waqf, bc_i, broadcasts,
                   received>>

\* broadcast_to_project is called, lines 23-25 of websockets.py
BroadcastStart ==
    /\ bc_pc = "idle"
    /\ broadcasts < MaxBroadcasts
    /\ broadcasts' = broadcasts + 1
    /\ \E waqf_id \in WaqfIds : bc_waqf' = waqf_id
    /\ bc_i' = 1
    /\ bc_pc' = "sending"
    /\ UNCHANGED <<mainVars, redis, cacheVars, aiVars, userVars, linkVars, httpVars,
                   regVars, active_connections, ws_pc, ws_waqf, client, received>>

\* lines 25-26: the for loop takes the next socket of the list as it is now
\* and awaits send_text; sending on a socket whose client is gone raises or
\* is dropped, as the server library has it
BroadcastSend ==
    /\ bc_pc = "sending"
    /\ LET connections == active_connections[bc_waqf] IN
       IF bc_i > Len(connections)
       THEN /\ bc_pc' = "idle"
            /\ UNCHANGED <<bc_i, received>>
       ELSE LET connection == connections[bc_i] IN
            IF client[connection] = "connected"
            THEN /\ received' = [received EXCEPT ![connection] = @ + 1]
                 /\ bc_i' = bc_i + 1
                 /\ UNCHANGED bc_pc
            ELSE \E raises \in BOOLEAN :
                   /\ bc_pc' = IF raises THEN "idle" ELSE "sending"
                   /\ bc_i' = bc_i + 1
                   /\ UNCHANGED received
    /\ UNCHANGED <<mainVars, redis, cacheVars, aiVars, userVars, linkVars, httpVars,
                   regVars, active_connections, ws_pc, ws_waqf, client, bc_waqf,
                   broadcasts>>

WsNext ==
    \/ \E s \in WebSockets : WsOpen(s)
    \/ \E s \in WebSockets : WsAccepted(s)
    \/ \E s \in WebSockets : ClientDisconnects(s)
    \/ \E s \in WebSockets : WsSleep(s)
    \/ BroadcastStart
    \/ BroadcastSend

\* The event loop runs every endpoint and the broadcast when they can go on.
WsSpec ==
    /\ LedgerInit
    /\ [][WsNext]_vars
    /\ \A s \in WebSockets : WF_vars(WsAccepted(s)) /\ WF_vars(WsSleep(s))
    /\ WF_vars(BroadcastSend)

\* ================================================================== claims
Done(r) == pc[r] = "done"
session_of(r) == sessions[sid[r]]
UnknownTag(r) == request[r].module \notin (ModuleType \cup {"None", ""})

\* C1: for every envelope whose module tag matches no registered module,
\* process_request returns the module-not-found error result, opens no
\* session and commits nothing.
C1_UnknownTagIsAnErrorResult ==
    \A r \in Reqs :
        (Done(r) /\ UnknownTag(r)) =>
            (response[r] = "module_not_found" /\ sid[r] = 0)

\* C2: when the handler's result has success = true, commit is called exactly
\* once on the request's session and rollback is not called; when the flag is
\* false or absent, rollback is called, commit is not, and nothing written
\* through the session persists.
C2_CommitOnSuccessRollbackOtherwise ==
    \A r \in Reqs :
        /\ (result[r] = "true" /\ pc[r] \in {"recommend", "done"}) =>
              (session_of(r).commits = 1 /\ session_of(r).rollbacks = 0)
        /\ (result[r] \in {"false", "absent"} /\ pc[r] \in {"recommend", "done"}) =>
              (session_of(r).rollbacks = 1 /\ session_of(r).commits = 0)
        /\ (result[r] # "true") => r \notin db
        /\ (Done(r) /\ sid[r] # 0) => session_of(r).dirty = {}

C2_Witness ==
    \E r, q \in Reqs :
        /\ Done(r) /\ result[r] = "true" /\ r \in db /\ session_of(r).commits = 1
        /\ Done(q) /\ result[q] = "absent" /\ session_of(q).rollbacks = 1

\* C3: process_request never propagates a fault: every fault, wherever it is
\* raised (resolving the module tag included), becomes the internal-error
\* result.
C3_NoFaultReachesTheCaller ==
    \A r \in Reqs :
        (Done(r) /\ fault[r] # "none") => response[r] = "internal_error"

\* C4: when a fault is raised after the session was opened (handler, commit,
\* seal step, recommendations), the session is rolled back before it is closed
\* and before the internal-error result is returned.
C4_FaultRollsBack ==
    \A r \in Reqs :
        (Done(r) /\ fault[r] \in {"handler", "commit", "seal", "recommend"}) =>
            session_of(r).rollbacks >= 1

\* C5: every session get_db_session opens is closed exactly once on every
\* exit path, no session stays open once its request has returned, and no two
\* requests use the same session.
C5_SessionsClosedOnceAndExclusive ==
    /\ \A r \in Reqs :
          /\ (Done(r) /\ sid[r] # 0) =>
                (session_of(r).closes = 1 /\ session_of(r).state = "closed")
          /\ (sid[r] # 0 /\ ~Done(r)) =>
                (session_of(r).closes = 0 /\ session_of(r).state = "open")
    /\ \A r, q \in Reqs : (r # q /\ sid[r] # 0) => sid[r] # sid[q]
    /\ \A i \in DOMAIN sessions : \E r \in Reqs : sid[r] = i

C5_Witness ==
    \E r, q \in Reqs :
        /\ r # q /\ Done(r) /\ Done(q)
        /\ fault[r] = "handler" /\ response[q] = "result"
        /\ session_of(r).closes = 1 /\ session_of(q).closes = 1

\* ---- the ledger
RECURSIVE Flatten(_)
Flatten(blocks) ==
    IF blocks = <<>> THEN <<>>
    ELSE Head(blocks).transactions \o Flatten(Tail(blocks))

Ids(txs) == {txs[i].id : i \in DOMAIN txs}
AmountsOf(txs) == [i \in DOMAIN txs |-> txs[i].amount]

\* C6: a seal moves every transaction pending at that moment into the new
\* block, in order, and leaves the pool empty.
C6_SealMovesThePool ==
    [][seals' # seals =>
          /\ Len(chain') = Len(chain) + 1
          /\ chain'[Len(chain')].transactions = pending_transactions
          /\ pending_transactions' = <<>>]_vars

C6_Witness ==
    /\ Len(chain) = 2
    /\ AmountsOf(chain[2].transactions) = <<5, 7>>
    /\ pending_transactions = <<>>

\* C7: each non-genesis block's previous hash is the hash of the block
\* before it, whoever sealed it.
C7_PreviousHashLinks ==
    \A i \in 2..Len(chain) : chain[i].previous_hash = Hash(chain[i - 1])

C7_Witness ==
    /\ Len(chain) = 3
    /\ chain[2].miner # chain[3].miner
    /\ chain[2].transactions # <<>>
    /\ chain[3].previous_hash = Hash(chain[2])

\* C8: the chain starts with the genesis block and is append-only: after N
\* seals it has N+1 blocks with consecutive indices, and no block once
\* appended is removed or altered.
C8_AppendOnlyChain ==
    /\ [](/\ Len(chain) = seals + 1
          /\ chain[1] = Genesis
          /\ \A i \in DOMAIN chain : chain[i].index = i)
    /\ [][/\ Len(chain') >= Len(chain)
          /\ SubSeq(chain', 1, Len(chain)) = chain]_vars

C8_Witness ==
    /\ seals = 2
    /\ Len(chain) = 3
    /\ chain[3].transactions # <<>>

C10_ThresholdSealsOneBlock ==
    \A r \in Reqs :
        (Done(r) /\ result[r] = "true" /\ fault[r] \notin {"commit", "recommend"}) =>
            /\ reached[r] => (sealedBy[r] = 1 /\ response[r] = "result")
            /\ ~reached[r] => sealedBy[r] = 0

C12_TickSealsIffPendingAndGoesOn ==
    [][PeriodicTick =>
          /\ (pending_transactions # <<>>) <=>
                (seals' = seals + 1 /\ Len(chain') = Len(chain) + 1)
          /\ periodic' = "sleeping"]_vars

\* C13: an envelope without a module tag (absent or empty) is routed to the
\* fallback module FARD_AI; an envelope with a registered tag is routed to
\* exactly the module registered for that tag.
C13_RoutesToFallbackOrTaggedModule ==
    \A r \in Reqs :
        /\ pc[r] \in {"query", "delegate"} =>
              /\ request[r].module \in {"None", ""} => module_type[r] = "FARD_AI"
              /\ request[r].module \in ModuleType =>
                    module_type[r] = request[r].module
              /\ module_type[r] \in modules
              /\ HasProcessRequest(module_type[r])
        /\ response[r] \in {"raised", "module_not_found", "no_method"} =>
              UnknownTag(r)

C13_Witness ==
    \E r, q \in Reqs :
        /\ pc[r] = "delegate" /\ request[r].module = "" /\ module_type[r] = "FARD_AI"
        /\ pc[q] = "delegate" /\ request[q].module = "UMMAH_WAQF"
        /\ module_type[q] = "UMMAH_WAQF"

\* C14: the cache affects only latency: whatever calls and changes of the
\* data interleave, a call returns with the cache what it returns without.
C14_CacheAffectsOnlyLatency ==
    cache_pc = "idle" => returned = returned_plain

\* C15: of two identical analyze-text requests by the same user, the second
\* made within the lifetime of the entry the first one stored, only the first
\* calls analyze_topics, once, and the second response equals the first.
C15_SecondRequestIsServedFromTheCache ==
    \A r, q \in AiReqs :
        (/\ r # q /\ ai_pc[r] = "done" /\ ai_pc[q] = "done"
         /\ ai_request[r] = ai_request[q]
         /\ ai_live[q]) =>
            /\ ai_called[r] = 1
            /\ ai_called[q] = 0
            /\ ai_response[q] = ai_response[r]

C15_Witness ==
    /\ ai_pc["first"] = "done" /\ ai_pc["second"] = "done"
    /\ ai_request["first"] = ai_request["second"]
    /\ ~ai_live["first"] /\ ai_live["second"]
    /\ ai_called["first"] = 1 /\ ai_called["second"] = 0
    /\ ai_response["second"] = ai_response["first"]
    /\ ai_response["first"].v = MaxScore

\* ---- the user endpoints
\* the last request was a login that named a user and gave the user's password
CorrectLogin ==
    /\ last.op = "login"
    /\ last.target # NoUser
    /\ verify_password(last.password, users[last.target].hashed_password)

C19_BlockBansTheTarget ==
    (/\ last.op = "block"
     /\ users[last.caller].role = "ADMIN"
     /\ last.target \in UserIds
     /\ users[last.target].role # "ADMIN") =>
        /\ last.status = 200
        /\ last.body.id = last.target
        /\ users[last.target].banned_until > last.at
        /\ login_for_access_token(users, users[last.target].email, "password",
                                  last.at).status = 403

\* C20: when an admin unblocks an existing blocked user, the request gives
\* 200, the user's banned_until becomes None and the user's login with the
\* right password succeeds; a block followed by an unblock leaves the user
\* unbanned.
C20_UnblockLiftsTheBan ==
    [][(/\ last' # last
        /\ last'.op = "unblock"
        /\ users[last'.caller].role = "ADMIN"
        /\ last'.target \in UserIds
        /\ users[last'.target].banned_until > now) =>
           /\ last'.status = 200
           /\ last'.body = [id |-> last'.target, banned_until |-> NoBan]
           /\ users'[last'.target].banned_until = NoBan
           /\ login_for_access_token(users', users[last'.target].email, "password",
                                     now).status = 200]_vars

C22_AdminExistsAfterTheScript ==
    last.op = "create_admin" =>
        \E id \in DOMAIN users :
            users[id].email = admin_email /\ users[id].role = "ADMIN"

\* ---- linking a wallet
\* C26: a wallet-link nonce is used once.  No two link_wallet requests are
\* verified against the same nonce; the request that verifies a signature
\* against the nonce, valid or not, deletes it in the same step; and a
\* request that reaches the nonce check when none is stored ends with 408
\* without verifying anything (a request refused with 409 at the wallet
\* check, line 227, never reads the nonce).
C26_NonceIsSingleUse ==
    /\ [](\A t1, t2 \in LinkReqs :
            t1 # t2 /\ verified[t1] # NoNonce => verified[t1] # verified[t2])
    /\ [][\A t \in LinkReqs :
            link_pc[t] = "lookup" /\ link_pc'[t] # "lookup" =>
              LET current_user == link_req[t].caller IN
              /\ verified'[t] # NoNonce =>
                     /\ verified'[t] = link_wallet_nonce[current_user]
                     /\ link_wallet_nonce'[current_user] = NoNonce
              /\ link_wallet_nonce[current_user] = NoNonce /\ link_status'[t] # 409 =>
                     link_status'[t] = 408 /\ verified'[t] = NoNonce]_vars

\* One request used the caller's nonce; the caller's next one got 408.
C26_Witness ==
    \E t1, t2 \in LinkReqs :
        /\ t1 # t2
        /\ link_req[t1].caller = link_req[t2].caller
        /\ verified[t1] # NoNonce
        /\ link_status[t2] = 408

\* C27: no wallet address is linked to two different users.
C27_NoWalletOfTwoUsers ==
    \A u, v \in DOMAIN users :
        u # v /\ users[u].wallet_address # NoWallet =>
            users[u].wallet_address # users[v].wallet_address

\* ---- the generic endpoint
\* C23: handle_user_request answers 400 for every result whose success flag
\* is false, and returns neither such a result nor an error-only result as
\* the body of a successful response.
C23_FailuresBecomeHttpErrors ==
    \A t \in HttpReqs :
        http_pc[t] = "done" /\ http_result[t] # NoResult =>
            /\ http_result[t].success = "false" => http_status[t] = 400
            /\ http_result[t].success = "absent" /\ http_result[t].error =>
                   http_status[t] # 200

\* ---- commits, rollbacks and the pool
\* The commit of request r was performed.
Committed(r) ==
    sid[r] # 0 /\ session_of(r).commits > 0 /\ fault[r] # "commit"

\* C24: when process_request returns a result that is not successful, the
\* internal-error result included, no commit was performed during the request.
C24_NotSuccessfulMeansNotCommitted ==
    \A r \in Reqs :
        (Done(r) /\ ~(response[r] = "result" /\ result[r] = "true")) =>
            (~Committed(r) /\ r \notin db)

\* C25: transactions put in the pool by a request whose session was rolled
\* back do not stay in the pool and are not sealed: when no request is in
\* flight and none has committed, the pool holds what it held before the
\* requests and no block was created.
C25_RolledBackRequestsLeaveNoTransaction ==
    (\A r \in Reqs : pc[r] = "idle" \/ (Done(r) /\ ~Committed(r))) =>
        /\ \E k \in {0, MaxInitPool} :
              pending_transactions = NewTxs("u1", "waqf", 5, 1, k)
        /\ chain = <<Genesis>>

\* C29: every transaction placed in the pending pool is eventually contained
\* in a block.
C29_PendingIsEventuallySealed ==
    \A id \in 1..(MaxInitPool + MaxReq * MaxTxPerCall) :
        (id \in Ids(pending_transactions)) ~> (id \in Ids(Flatten(chain)))

\* ---- register_user
\* C28: register_user is all-or-nothing: a call that returned failure left
\* no user row and no entry of self.sessions; a call that returned success left
\* both.
C28_RegisterIsAllOrNothing ==
    \A t \in RegReqs :
        /\ reg_result[t] = "False" =>
              (user_id_of(t) \notin mubarak_users /\ user_id_of(t) \notin self_sessions)
        /\ reg_result[t] = "True" =>
              (user_id_of(t) \in mubarak_users /\ user_id_of(t) \in self_sessions)

\* ---- websockets
\* C30: active_connections[waqf_id] holds the sockets that connected to the
\* project and have not disconnected since: a socket whose client
\* disconnected is eventually removed from the list of its project.
C30_DisconnectedSocketsAreRemoved ==
    \A s \in WebSockets :
        (client[s] = "gone") ~>
            (\A w \in WaqfIds : s \notin Members(active_connections[w]))

====
